---------------------------- MODULE Spec2Model ----------------------------
(***************************************************************************)
(* A model of the eCFR ETL core: Config, DataExtractor, DataTransformer,   *)
(* DatabaseLoader, ETLPipeline and the loop of run_initial_etl that drives *)
(* one pipeline run per title.                                             *)
(*                                                                         *)
(* Conventions.  A Python str is a sequence of one-character strings.  A   *)
(* Python dict is a record; a key the dict lacks is a field the record     *)
(* lacks.  An exception is a record [type, arg].                           *)
(***************************************************************************)
EXTENDS Integers, Sequences, FiniteSets, TLC

(***************************************************************************)
(* Bounds of the model.                                                    *)
(***************************************************************************)
\* agencies, children included, in one admin payload of TransformSpec
MaxNodes == 3
\* cfr_references entries of one agency of a payload
MaxRefs == 1
\* run_initial_etl loops over range(1, 51) and skips 35: the model's loop is
\* range(1, LastTitle + 1) and skips SkippedTitle
LastTitle == 3
SkippedTitle == 2
\* LoaderSpec: the rows cfr_references and cfr_sections may grow to
MaxReferenceRows == 1
MaxSectionRows == 1
\* VersionerSpec: the sections of one branch of a document
MaxSections == 2
\* CleanSpec: the length of the text handed to clean_text
MaxTextLen == 4

(***************************************************************************)
(* Values.                                                                 *)
(***************************************************************************)
\* Python's None as a text value; no str equals it
None == <<"<None>">>
\* SQL NULL / Python None in the integer column parent_id; ids start at 1
NULL == 0

NoException == [type |-> "none", arg |-> ""]
Exception(type, arg) == [type |-> type, arg |-> arg]

\* the characters \s matches, among those the inputs use
Whitespace == {" ", "\n"}

(***************************************************************************)
(* DataTransformer.clean_text                                              *)
(***************************************************************************)
RECURSIVE lstrip(_)
lstrip(s) ==
    IF s # <<>> /\ Head(s) \in Whitespace THEN lstrip(Tail(s)) ELSE s

RECURSIVE rstrip(_)
rstrip(s) ==
    IF s # <<>> /\ s[Len(s)] \in Whitespace
    THEN rstrip(SubSeq(s, 1, Len(s) - 1))
    ELSE s

strip(s) == rstrip(lstrip(s))

\* re.sub with the pattern r'\s' instead of r'\s+': every whitespace
\* character becomes a space
RECURSIVE re_sub_each_whitespace(_)
re_sub_each_whitespace(s) ==
    IF s = <<>> THEN <<>>
    ELSE <<IF Head(s) \in Whitespace THEN " " ELSE Head(s)>>
         \o re_sub_each_whitespace(Tail(s))

\* re.sub(r'\s+', ' ', text): every maximal run of whitespace becomes one space
RECURSIVE re_sub_whitespace(_)
re_sub_whitespace(s) ==
    IF s = <<>> THEN <<>>
    ELSE IF Head(s) \in Whitespace
         THEN <<" ">> \o re_sub_whitespace(lstrip(Tail(s)))
         ELSE <<Head(s)>> \o re_sub_whitespace(Tail(s))

clean_text(text) ==
    IF text # None /\ text # <<>>
    THEN strip(re_sub_whitespace(text))
    ELSE <<>>

(***************************************************************************)
(* dict access                                                             *)
(***************************************************************************)
\* d.get(key): None when the key is absent
get(d, key) == IF key \in DOMAIN d THEN d[key] ELSE None
\* d.get(key, []) for a list-valued key
get_list(d, key) == IF key \in DOMAIN d THEN d[key] ELSE <<>>

(***************************************************************************)
(* DataTransformer.transform_admin_api                                     *)
(***************************************************************************)
\* the list comprehension that copies an agency's cfr_references
cfr_refs_of(agency) ==
    LET refs == get_list(agency, "cfr_references")
    IN  [k \in 1..Len(refs) |->
            [title   |-> get(refs[k], "title"),
             chapter |-> get(refs[k], "chapter"),
             part    |-> get(refs[k], "part")]]

\* agency_row with the counter started at 0 instead of 1
agency_row_zero_based(agency, id, parent) ==
    [agency_id       |-> id - 1,
     name            |-> clean_text(agency["name"]),
     short_name      |-> clean_text(get(agency, "short_name")),
     display_name    |-> clean_text(get(agency, "display_name")),
     sortable_name   |-> clean_text(get(agency, "sortable_name")),
     slug            |-> clean_text(agency["slug"]),
     parent_id       |-> parent,
     cfr_references  |-> cfr_refs_of(agency)]

\* the row dict built for an agency or a child
agency_row(agency, id, parent) ==
    [agency_id       |-> id,
     name            |-> clean_text(agency["name"]),
     short_name      |-> clean_text(get(agency, "short_name")),
     display_name    |-> clean_text(get(agency, "display_name")),
     sortable_name   |-> clean_text(get(agency, "sortable_name")),
     slug            |-> clean_text(agency["slug"]),
     parent_id       |-> parent,
     cfr_references  |-> cfr_refs_of(agency)]

\* agency['slug'] is read first, agency['name'] while the row is built
missing_key(agency) ==
    IF "slug" \notin DOMAIN agency THEN "slug"
    ELSE IF "name" \notin DOMAIN agency THEN "name"
    ELSE ""

\* slug_to_id[slug] = id
put(m, key, value) ==
    [x \in DOMAIN m \cup {key} |-> IF x = key THEN value ELSE m[x]]

\* child_parent_id with the child's own id, as if slug_to_id[child_slug] were
\* written before the row is built and read in place of the parent's entry
child_parent_id_own(st, agency_slug) == st.next_id

\* the parent_id a child row gets: slug_to_id[agency_slug], read when the
\* child row is built
child_parent_id(st, agency_slug) == st.slug_to_id[agency_slug]

\* for child in agency.get('children', [])
RECURSIVE process_children(_, _, _, _)
process_children(children, k, agency_slug, st) ==
    IF st.raised # NoException \/ k > Len(children) THEN st
    ELSE LET child == children[k] IN
         IF missing_key(child) # ""
         THEN [st EXCEPT !.raised = Exception("KeyError", missing_key(child))]
         ELSE LET child_slug == clean_text(child["slug"])
                  child_row  == agency_row(child, st.next_id,
                                           child_parent_id(st, agency_slug))
              IN  process_children(children, k + 1, agency_slug,
                      [rows       |-> Append(st.rows, child_row),
                       slug_to_id |-> put(st.slug_to_id, child_slug, st.next_id),
                       next_id    |-> st.next_id + 1,
                       raised     |-> NoException])

\* for agency in agencies
RECURSIVE process_agencies(_, _, _)
process_agencies(agencies, i, st) ==
    IF st.raised # NoException \/ i > Len(agencies) THEN st
    ELSE LET agency == agencies[i] IN
         IF missing_key(agency) # ""
         THEN [st EXCEPT !.raised = Exception("KeyError", missing_key(agency))]
         ELSE LET agency_slug == clean_text(agency["slug"])
                  row == agency_row(agency, st.next_id, NULL)
                  st1 == [rows       |-> Append(st.rows, row),
                          slug_to_id |-> put(st.slug_to_id, agency_slug, st.next_id),
                          next_id    |-> st.next_id + 1,
                          raised     |-> NoException]
              IN  process_agencies(agencies, i + 1,
                      process_children(get_list(agency, "children"), 1,
                                       agency_slug, st1))

\* the result: [raised, rows]; rows is what the call returns when nothing is
\* raised
transform_admin_api(params, api_response) ==
    IF params["service"] # "admin"
    THEN [raised |-> Exception("Exception", "Wrong Service Called"), rows |-> <<>>]
    ELSE LET st == process_agencies(get_list(api_response, "agencies"), 1,
                       [rows |-> <<>>, slug_to_id |-> <<>>, next_id |-> 1,
                        raised |-> NoException])
         IN  [raised |-> st.raised,
              rows   |-> IF st.raised = NoException THEN st.rows ELSE <<>>]

(***************************************************************************)
(* DataTransformer.transform_versioner_api                                 *)
(*                                                                         *)
(* An XML element is a record [tag, attrib, text, kids]: attrib is the     *)
(* dict of its attributes, text its own text, kids its child elements in   *)
(* document order.  The XML text the versioner returns is a record         *)
(* [wellformed, root]: root is the tree etree.fromstring builds from it.   *)
(***************************************************************************)
\* ' '.join(parts)
RECURSIVE join(_)
join(parts) ==
    IF parts = <<>> THEN <<>>
    ELSE IF Len(parts) = 1 THEN parts[1]
    ELSE parts[1] \o <<" ">> \o join(Tail(parts))

\* the descendants of an element, in document order, the element excluded
RECURSIVE descendants(_)
RECURSIVE descendants_of_all(_)
descendants(e) == descendants_of_all(e.kids)
descendants_of_all(es) ==
    IF es = <<>> THEN <<>>
    ELSE <<Head(es)>> \o descendants(Head(es)) \o descendants_of_all(Tail(es))

has_tag(e, tag) == e.tag = tag

\* findall for the path './TAG': the children only
findall_children(e, tag) ==
    LET RECURSIVE pick(_)
        pick(k) == IF k > Len(e.kids) THEN <<>>
                   ELSE IF has_tag(e.kids[k], tag) THEN <<e.kids[k]>> \o pick(k + 1)
                   ELSE pick(k + 1)
    IN  pick(1)

\* e.findall('.//TAG')
findall(e, tag) ==
    LET all == descendants(e)
        RECURSIVE pick(_)
        pick(k) == IF k > Len(all) THEN <<>>
                   ELSE IF has_tag(all[k], tag) THEN <<all[k]>> \o pick(k + 1)
                   ELSE pick(k + 1)
    IN  pick(1)

\* (e.findtext('HEAD') or '').strip(): the text of the first HEAD child
head_of(e) ==
    LET heads == {k \in 1..Len(e.kids) : e.kids[k].tag = "HEAD"}
    IN  IF heads = {} THEN <<>>
        ELSE strip(e.kids[CHOOSE k \in heads : \A j \in heads : k <= j].text)

\* the text that follows an element's end tag inside its parent
tail_of(e) == IF "tail" \in DOMAIN e THEN e.tail ELSE <<>>

\* e.itertext(): the text nodes inside e in document order: its own text,
\* then for each child the child's text nodes and the child's tail
RECURSIVE itertext(_)
RECURSIVE itertext_of_all(_)
itertext(e) ==
    (IF e.text = <<>> THEN <<>> ELSE <<e.text>>) \o itertext_of_all(e.kids)
itertext_of_all(es) ==
    IF es = <<>> THEN <<>>
    ELSE itertext(Head(es))
         \o (IF tail_of(Head(es)) = <<>> THEN <<>> ELSE <<tail_of(Head(es))>>)
         \o itertext_of_all(Tail(es))

\* ' '.join(p.itertext()).strip()
paragraph_text(p) == strip(join(itertext(p)))

body_of(div8) ==
    LET ps == findall(div8, "P")
    IN  join([k \in 1..Len(ps) |-> paragraph_text(ps[k])])

\* the rows of the five nested loops, flattened in loop order
RECURSIVE flatten(_)
flatten(lists) ==
    IF lists = <<>> THEN <<>> ELSE Head(lists) \o flatten(Tail(lists))

\* section_rows that emits a row for a Part without sections, its section
\* fields empty
section_rows_or_part_row(div1, div3, div4, div5) ==
    LET div8s == findall(div5, "DIV8")
        row(number, title, body) ==
            [title_number      |-> get(div1.attrib, "N"),
             title_head        |-> head_of(div1),
             chapter_number    |-> get(div3.attrib, "N"),
             chapter_head      |-> head_of(div3),
             subchapter_number |-> get(div4.attrib, "N"),
             subchapter_head   |-> head_of(div4),
             part_number       |-> get(div5.attrib, "N"),
             part_head         |-> head_of(div5),
             section_number    |-> number,
             section_title     |-> title,
             body              |-> body]
    IN  IF div8s = <<>> THEN <<row(None, <<>>, <<>>)>>
        ELSE [k \in 1..Len(div8s) |->
                 row(get(div8s[k].attrib, "N"), head_of(div8s[k]), body_of(div8s[k]))]

section_rows(div1, div3, div4, div5) ==
    LET div8s == findall(div5, "DIV8")
    IN  [k \in 1..Len(div8s) |->
            [title_number      |-> get(div1.attrib, "N"),
             title_head        |-> head_of(div1),
             chapter_number    |-> get(div3.attrib, "N"),
             chapter_head      |-> head_of(div3),
             subchapter_number |-> get(div4.attrib, "N"),
             subchapter_head   |-> head_of(div4),
             part_number       |-> get(div5.attrib, "N"),
             part_head         |-> head_of(div5),
             section_number    |-> get(div8s[k].attrib, "N"),
             section_title     |-> head_of(div8s[k]),
             body              |-> body_of(div8s[k])]]

part_rows(div1, div3, div4) ==
    LET div5s == findall(div4, "DIV5")
    IN  flatten([k \in 1..Len(div5s) |-> section_rows(div1, div3, div4, div5s[k])])

subchapter_rows(div1, div3) ==
    LET div4s == findall(div3, "DIV4")
    IN  flatten([k \in 1..Len(div4s) |-> part_rows(div1, div3, div4s[k])])

chapter_rows(div1) ==
    LET div3s == findall(div1, "DIV3")
    IN  flatten([k \in 1..Len(div3s) |-> subchapter_rows(div1, div3s[k])])

title_rows(root) ==
    LET div1s == findall(root, "DIV1")
    IN  flatten([k \in 1..Len(div1s) |-> chapter_rows(div1s[k])])

transform_versioner_api(params, api_response) ==
    IF params["service"] # "versioner"
    THEN [raised |-> Exception("Exception", "Wrong Service Called"), rows |-> <<>>]
    ELSE IF ~api_response.wellformed
    THEN [raised |-> Exception("XMLSyntaxError", ""), rows |-> <<>>]
    ELSE [raised |-> NoException, rows |-> title_rows(api_response.root)]

(***************************************************************************)
(* DataTransformer.transform_proxy                                         *)
(***************************************************************************)
transform_proxy(params, api_response) ==
    IF params["service"] = "admin" THEN transform_admin_api(params, api_response)
    ELSE IF params["service"] = "versioner"
    THEN transform_versioner_api(params, api_response)
    ELSE [raised |-> Exception("ServiceNotImplementedError", params["service"]),
          rows   |-> <<>>]

(***************************************************************************)
(* Config                                                                  *)
(***************************************************************************)
BASE_URL == "https://www.ecfr.gov/"

\* the result: [raised, params]; params is the mapping the object holds when
\* the constructor returns
paramBuilder(service, user_params) ==
    IF service = "admin"
    THEN [raised |-> NoException,
          params |-> [service  |-> service,
                      base_url |-> BASE_URL,
                      endpoint |-> "api/admin/v1/agencies.json"]]
    ELSE IF service = "versioner"
    THEN IF "date" \notin DOMAIN user_params
         THEN [raised |-> Exception("KeyError", "date"), params |-> <<>>]
         ELSE IF "title" \notin DOMAIN user_params
         THEN [raised |-> Exception("KeyError", "title"), params |-> <<>>]
         ELSE [raised |-> NoException,
               params |-> [service  |-> service,
                           base_url |-> BASE_URL,
                           date     |-> user_params["date"],
                           title    |-> user_params["title"]]]
    \* the ValueError is constructed and dropped
    ELSE [raised |-> NoException, params |-> [service |-> service]]

Config(service, user_params) == paramBuilder(service, user_params)

(***************************************************************************)
(* DataExtractor.extract_data                                              *)
(*                                                                         *)
(* http is what requests.get and raise_for_status do for the one request   *)
(* of the call: [status, body], status "ok" (a 2xx answer with that body), *)
(* "ConnectionError" (no answer) or "HTTPError" (an answer that is not     *)
(* 2xx).  The result is [raised, value, requests]: requests lists the URLs *)
(* the call asked for.                                                     *)
(***************************************************************************)
\* extract_branch with the admin branch as the fall-through
extract_branch_admin_default(service) ==
    IF service = "versioner" THEN "versioner" ELSE "admin"

\* the branch extract_data takes for params['service']
extract_branch(service) ==
    IF service = "admin" THEN "admin"
    ELSE IF service = "versioner" THEN "versioner"
    ELSE "else"

\* what follows the try block: the except clause prints and falls through to
\* the return of a local that was never bound
fetch_result(http, url, local) ==
    IF http.status = "ok"
    THEN [raised |-> NoException, value |-> http.body, requests |-> <<url>>]
    ELSE [raised |-> Exception("UnboundLocalError", local), value |-> <<>>,
          requests |-> <<url>>]

extract_data(params, http) ==
    IF DOMAIN params = {}
    THEN [raised |-> Exception("ValueError", "params"), value |-> <<>>,
          requests |-> <<>>]
    ELSE IF "service" \notin DOMAIN params
    THEN [raised |-> Exception("ValueError", "service"), value |-> <<>>,
          requests |-> <<>>]
    ELSE IF extract_branch(params["service"]) = "admin"
    THEN fetch_result(http, <<get(params, "base_url"), get(params, "endpoint")>>,
                      "retrieved_data")
    ELSE IF extract_branch(params["service"]) = "versioner"
    THEN IF "date" \notin DOMAIN params
         THEN [raised |-> Exception("KeyError", "date"), value |-> <<>>,
               requests |-> <<>>]
         ELSE IF "title" \notin DOMAIN params
         THEN [raised |-> Exception("KeyError", "title"), value |-> <<>>,
               requests |-> <<>>]
         ELSE fetch_result(http,
                  <<get(params, "base_url"), "api/versioner/v1/full",
                    params["date"], params["title"]>>,
                  "xml_content")
    ELSE [raised |-> Exception("ServiceNotImplementedError", params["service"]),
          value |-> <<>>, requests |-> <<>>]

(***************************************************************************)
(* DatabaseLoader                                                          *)
(*                                                                         *)
(* A database is a record of its three tables, each the set of its rows,   *)
(* and of sqlite_sequence, the last AUTOINCREMENT key of each table.       *)
(* The loader's connection sees conn; disk is what is committed, which is  *)
(* what any other connection reads and what is left when the connection    *)
(* is dropped.                                                             *)
(***************************************************************************)
\* create_tables on a new file
EmptyDatabase ==
    [agencies        |-> {},
     cfr_references  |-> {},
     cfr_sections    |-> {},
     sqlite_sequence |-> [cfr_references |-> 0, cfr_sections |-> 0]]

\* sqlite3.connect: no PRAGMA foreign_keys = ON is ever issued, and SQLite
\* leaves foreign keys unenforced on a connection unless it is
foreign_keys == FALSE

\* the rows INSERT OR REPLACE deletes before it inserts: the row with the
\* same primary key, and every row with the same (non-NULL) UNIQUE slug
replaced_rows(agencies, agency) ==
    {r \in agencies :
        \/ r.agency_id = agency["agency_id"]
        \/ r.slug # None /\ r.slug = agency["slug"]}

\* the seven columns insert_agency binds
agency_columns(agency) ==
    [agency_id     |-> agency["agency_id"],
     name          |-> agency["name"],
     short_name    |-> agency["short_name"],
     display_name  |-> agency["display_name"],
     sortable_name |-> agency["sortable_name"],
     slug          |-> agency["slug"],
     parent_id     |-> agency["parent_id"]]

\* insert_agency: one INSERT OR REPLACE on the connection, outside any
\* `with self.conn`, so nothing is committed.  The result is [raised, conn, disk].
insert_agency(conn, disk, agency) ==
    [raised |-> NoException,
     conn   |-> [conn EXCEPT !.agencies =
                    (conn.agencies \ replaced_rows(conn.agencies, agency))
                    \cup {agency_columns(agency)}],
     disk   |-> disk]

\* the FOREIGN KEY (agency_id) REFERENCES agencies(agency_id) check
foreign_key_ok(conn, agency_id) ==
    ~foreign_keys \/ \E r \in conn.agencies : r.agency_id = agency_id

\* insert_cfr_reference: INSERT inside `with self.conn`, which commits the
\* connection's whole transaction on success and rolls it back on an exception
insert_cfr_reference(conn, disk, agency_id, reference) ==
    IF ~foreign_key_ok(conn, agency_id)
    THEN [raised |-> Exception("IntegrityError", "FOREIGN KEY constraint failed"),
          conn |-> disk, disk |-> disk]
    ELSE LET id  == conn.sqlite_sequence.cfr_references + 1
             row == [reference_id |-> id,
                     agency_id    |-> agency_id,
                     title        |-> get(reference, "title"),
                     chapter      |-> get(reference, "chapter"),
                     part         |-> get(reference, "part")]
             new == [conn EXCEPT !.cfr_references = @ \cup {row},
                                 !.sqlite_sequence.cfr_references = id]
         IN  [raised |-> NoException, conn |-> new, disk |-> new]

\* insert_cfr_section with a duplicate check: a section whose eleven columns
\* equal those of a stored row is not inserted again
insert_cfr_section_unless_present(conn, disk, section) ==
    IF \E r \in conn.cfr_sections : \A c \in DOMAIN section : r[c] = section[c]
    THEN [raised |-> NoException, conn |-> conn, disk |-> conn]
    ELSE LET id  == conn.sqlite_sequence.cfr_sections + 1
             row == [c \in DOMAIN section \cup {"section_id"} |->
                        IF c = "section_id" THEN id ELSE section[c]]
             new == [conn EXCEPT !.cfr_sections = @ \cup {row},
                                 !.sqlite_sequence.cfr_sections = id]
         IN  [raised |-> NoException, conn |-> new, disk |-> new]

\* insert_cfr_section: INSERT inside `with self.conn`
insert_cfr_section(conn, disk, section) ==
    LET id  == conn.sqlite_sequence.cfr_sections + 1
        row == [section_id        |-> id,
                title_number      |-> section["title_number"],
                title_head        |-> section["title_head"],
                chapter_number    |-> section["chapter_number"],
                chapter_head      |-> section["chapter_head"],
                subchapter_number |-> section["subchapter_number"],
                subchapter_head   |-> section["subchapter_head"],
                part_number       |-> section["part_number"],
                part_head         |-> section["part_head"],
                section_number    |-> section["section_number"],
                section_title     |-> section["section_title"],
                body              |-> section["body"]]
        new == [conn EXCEPT !.cfr_sections = @ \cup {row},
                            !.sqlite_sequence.cfr_sections = id]
    IN  [raised |-> NoException, conn |-> new, disk |-> new]

\* a statement the database refuses (sqlite3.OperationalError: the file is
\* locked, the disk is full): in insert_agency nothing changes; inside
\* `with self.conn` the connection's transaction is rolled back
execute_fails(conn, disk, in_with) ==
    [raised |-> Exception("OperationalError", ""),
     conn   |-> IF in_with THEN disk ELSE conn,
     disk   |-> disk]

(***************************************************************************)
(* Inputs: what the upstream API may answer.                               *)
(***************************************************************************)
\* raw slugs; the first two clean to the same text
Slugs == {<<"a">>, <<"a", " ">>, <<"b">>}

Reference == [title |-> <<"1">>, chapter |-> <<"I">>, part |-> <<>>]

\* an agency or child without its children: with its references, without
\* the optional keys, or lacking a required key
AgencyFields ==
    {[name |-> <<"n">>, slug |-> s,
      cfr_references |-> [k \in 1..MaxRefs |-> Reference]] : s \in Slugs}
    \cup {[name |-> <<"n">>, short_name |-> <<" ", "s", "\n">>, slug |-> <<"b">>],
          [name |-> <<"n">>],
          [slug |-> <<"a">>]}

\* the lists of top-level agencies that hold n agencies, children included
RECURSIVE AgencyLists(_)
AgencyLists(n) ==
    IF n = 0 THEN {<<>>}
    ELSE UNION {
           {<<put(a, "children", kids)>> \o rest :
               a \in AgencyFields,
               kids \in [1..(k - 1) -> AgencyFields],
               rest \in AgencyLists(n - k)} : k \in 1..n}

\* the admin payloads of TransformSpec: every shape up to max agencies, and
\* an answer without the agencies key
AdminPayloads(max) ==
    {[agencies |-> l] : l \in UNION {AgencyLists(n) : n \in 0..max}}
    \cup {[detail |-> <<"x">>]}

\* the end-to-end fixture of the specification
Doe ==
    [name |-> <<"D", "o", "E">>, short_name |-> <<"D", "O", "E">>,
     display_name |-> <<"D", "O", "E">>, sortable_name |-> <<"d", "o", "e">>,
     slug |-> <<"d", "o", "e">>,
     cfr_references |-> <<Reference>>,
     children |-> <<[name |-> <<"S", "O">>, short_name |-> <<"S", "O">>,
                     display_name |-> <<"S", "O">>, sortable_name |-> <<"s", "o">>,
                     slug |-> <<"s", "o">>, cfr_references |-> <<>>,
                     children |-> <<>>]>>]

Agency(slug, refs) ==
    [name |-> <<"n">>, slug |-> slug, cfr_references |-> refs, children |-> <<>>]

\* the admin payloads of the pipeline runs
PipelinePayloads ==
    {[agencies |-> <<>>],
     [agencies |-> <<Doe>>],
     [agencies |-> <<Agency(<<"a">>, <<Reference>>), Agency(<<"b">>, <<Reference>>)>>],
     [agencies |-> <<Agency(<<"b">>, <<>>)>>],
     [agencies |-> <<Agency(<<"a">>, <<Reference>>), Agency(<<"a", " ">>, <<>>)>>],
     [agencies |-> <<Agency(<<"a">>, <<>>), [name |-> <<"n">>]>>]}

Element(tag, attrib, text, kids) ==
    [tag |-> tag, attrib |-> attrib, text |-> text, kids |-> kids]
Text(tag, text) == Element(tag, <<>>, text, <<>>)
Division(tag, n, head, kids) ==
    Element(tag, [N |-> n], <<>>, <<Text("HEAD", head)>> \o kids)

Section1 ==
    Division("DIV8", <<"1", ".", "1">>, <<"s", "1">>, <<Text("P", <<"p", " ">>)>>)
\* <DIV8 N="1.2"><HEAD>s2</HEAD><P>q</P><P>r<I>x</I> y</P></DIV8>
Section2 ==
    Division("DIV8", <<"1", ".", "2">>, <<"s", "2">>,
             <<Text("P", <<"q">>),
               Element("P", <<>>, <<"r">>,
                       <<[tag |-> "I", attrib |-> <<>>, text |-> <<"x">>,
                          kids |-> <<>>, tail |-> <<" ", "y">>]>>)>>)

\* <ECFR><DIV1><DIV3><DIV4><DIV5> sections </DIV5></DIV4></DIV3></DIV1></ECFR>
Document(sections) ==
    [wellformed |-> TRUE,
     root |-> Element("ECFR", <<>>, <<>>,
        <<Division("DIV1", <<"1">>, <<"t">>,
            <<Division("DIV3", <<"I">>, <<"c">>,
                <<Division("DIV4", <<"A">>, <<"s">>,
                    <<Division("DIV5", <<"1">>, <<"p">>, sections)>>)>>)>>)>>)]

Malformed == [wellformed |-> FALSE, root |-> Element("", <<>>, <<>>, <<>>)]

\* the XML documents of the pipeline runs
PipelineDocuments ==
    {Malformed, Document(<<>>), Document(<<Section1>>),
     Document(<<Section1, Section2>>)}

\* what one GET may do, the body drawn from bodies
Http(bodies) ==
    {[status |-> "ok", body |-> b] : b \in bodies}
    \cup {[status |-> "ConnectionError", body |-> <<>>],
          [status |-> "HTTPError", body |-> <<>>]}

(***************************************************************************)
(* State.                                                                  *)
(***************************************************************************)
VARIABLES
    \* run_initial_etl: the loop variable, the titles done, and whether the
    \* call is running, has returned ("completed") or was left by an
    \* exception ("crashed")
    title_number_int, processed_count, etl_status,
    \* ETLPipeline: the two Config.params, and run_pipeline's position and locals
    admin_config, versioner_config, pc,
    admin_raw_data, admin_transformed, versioner_raw_data, versioner_transformed,
    \* the loop positions of load_admin_data (agency i, reference j; j = 0
    \* before insert_agency) and of load_versioner_data (section i)
    i, j,
    \* the exception that left the run, the steps the run has executed, each
    \* [step, arg, ok], and the URLs it has requested
    raised, steps, requests,
    \* the database as the loader's connection sees it, and as committed
    conn, disk,
    \* a component called on its own: the Config built, the answer of the
    \* GET or the payload handed in, the result of the call, and which call
    \* it was
    config, response, api_response, result, phase,
    \* the last call made on a DatabaseLoader directly: [op, agency_id,
    \* agency, raised, before], before the connection's view when it was made
    call

pipeline_vars ==
    <<title_number_int, processed_count, etl_status, admin_config,
      versioner_config, pc, admin_raw_data, admin_transformed,
      versioner_raw_data, versioner_transformed, i, j, raised, steps, requests>>
store_vars == <<conn, disk>>
unit_vars == <<config, response, api_response, result, phase>>
vars == <<pipeline_vars, store_vars, unit_vars, call>>

Unbound == <<>>
NoCall ==
    [op |-> "none", agency_id |-> NULL, agency |-> <<>>, raised |-> NoException,
     before |-> EmptyDatabase]
Step(step, arg, ok) == [step |-> step, arg |-> arg, ok |-> ok]

PipelineIdle ==
    /\ title_number_int = 1
    /\ processed_count = 0
    /\ etl_status = "running"
    /\ admin_config = Unbound
    /\ versioner_config = Unbound
    /\ pc = "loop"
    /\ admin_raw_data = Unbound
    /\ admin_transformed = Unbound
    /\ versioner_raw_data = Unbound
    /\ versioner_transformed = Unbound
    /\ i = 1
    /\ j = 0
    /\ raised = NoException
    /\ steps = <<>>
    /\ requests = <<>>

UnitIdle ==
    /\ config = Unbound
    /\ response = Unbound
    /\ api_response = Unbound
    /\ result = Unbound
    /\ phase = "none"

Init ==
    /\ PipelineIdle
    /\ UnitIdle
    /\ conn = EmptyDatabase
    /\ disk = EmptyDatabase
    /\ call = NoCall

(***************************************************************************)
(* run_initial_etl and ETLPipeline.run_pipeline                            *)
(***************************************************************************)
\* Propagate with each step of run_pipeline wrapped in a try that logs the
\* exception and goes on to the next step
Propagate_logged(exception) ==
    /\ raised' = exception
    /\ pc' = CASE pc = "admin_extract" -> "admin_transform"
              [] pc = "admin_transform" -> "admin_load"
              [] pc = "versioner_extract" -> "versioner_transform"
              [] pc = "versioner_transform" -> "versioner_load"
              [] OTHER -> pc
    /\ etl_status' = etl_status

\* an exception no caller catches: it leaves run_pipeline and run_initial_etl
Propagate(exception) ==
    /\ raised' = exception
    /\ pc' = "raised"
    /\ etl_status' = "crashed"

\* for title_number_int in range(1, 51): if title_number_int == 35: continue
SkipTitle ==
    /\ etl_status = "running" /\ pc = "loop"
    /\ title_number_int <= LastTitle
    /\ title_number_int = SkippedTitle
    /\ title_number_int' = title_number_int + 1
    /\ UNCHANGED <<processed_count, etl_status, admin_config, versioner_config,
                   pc, admin_raw_data, admin_transformed, versioner_raw_data,
                   versioner_transformed, i, j, raised, steps, requests>>
    /\ UNCHANGED <<store_vars, unit_vars, call>>

\* run = ETLPipeline(user_params); run.run_pipeline() up to its first step.
\* The new DatabaseLoader opens a new connection, which sees what is
\* committed; rebinding run drops the previous pipeline and its connection.
StartRun ==
    /\ etl_status = "running" /\ pc = "loop"
    /\ title_number_int <= LastTitle
    /\ title_number_int # SkippedTitle
    /\ LET user_params == [date  |-> "latest_amended_on",
                           title |-> ToString(title_number_int)]
       IN  /\ admin_config' = Config("admin", <<>>).params
           /\ versioner_config' = Config("versioner", user_params).params
    /\ conn' = disk
    /\ pc' = "admin_extract"
    /\ admin_raw_data' = Unbound
    /\ admin_transformed' = Unbound
    /\ versioner_raw_data' = Unbound
    /\ versioner_transformed' = Unbound
    /\ steps' = <<>>
    /\ requests' = <<>>
    /\ UNCHANGED <<title_number_int, processed_count, etl_status, i, j, raised,
                   disk, unit_vars, call>>

\* admin_raw_data = self.admin_extractor.extract_data(), the GET answered
\* with one of bodies or failing
AdminExtractFrom(bodies) ==
    /\ pc = "admin_extract"
    /\ \E http \in Http(bodies) :
        LET r == extract_data(admin_config, http) IN
        /\ requests' = requests \o r.requests
        /\ steps' = Append(steps, Step("admin_extract", 0, r.raised = NoException))
        /\ IF r.raised = NoException
           THEN /\ admin_raw_data' = r.value
                /\ pc' = "admin_transform"
                /\ UNCHANGED <<raised, etl_status>>
           ELSE /\ Propagate(r.raised)
                /\ UNCHANGED admin_raw_data
    /\ UNCHANGED <<title_number_int, processed_count, admin_config,
                   versioner_config, admin_transformed, versioner_raw_data,
                   versioner_transformed, i, j, store_vars, unit_vars, call>>

AdminExtract == AdminExtractFrom(PipelinePayloads)

\* admin_transformed = self.admin_transformer.transform_proxy(admin_raw_data);
\* self.load_admin_data(admin_transformed) up to its first insert
AdminTransform ==
    /\ pc = "admin_transform"
    /\ LET r == transform_proxy(admin_config, admin_raw_data) IN
        /\ steps' = Append(steps, Step("admin_transform", 0, r.raised = NoException))
        /\ IF r.raised = NoException
           THEN /\ admin_transformed' = r.rows
                /\ pc' = "admin_load"
                /\ i' = 1
                /\ j' = 0
                /\ UNCHANGED <<raised, etl_status>>
           ELSE /\ Propagate(r.raised)
                /\ UNCHANGED <<admin_transformed, i, j>>
    /\ UNCHANGED <<title_number_int, processed_count, admin_config,
                   versioner_config, admin_raw_data, versioner_raw_data,
                   versioner_transformed, requests, store_vars, unit_vars, call>>

\* load_admin_data: self.db_loader.insert_agency(agency)
InsertAgency ==
    /\ pc = "admin_load" /\ i <= Len(admin_transformed) /\ j = 0
    /\ LET agency == admin_transformed[i] IN
       \E fails \in BOOLEAN :
        LET r == IF fails THEN execute_fails(conn, disk, FALSE)
                 ELSE insert_agency(conn, disk, agency) IN
        /\ conn' = r.conn
        /\ disk' = r.disk
        /\ steps' = Append(steps, Step("insert_agency", agency["agency_id"],
                                       r.raised = NoException))
        /\ IF r.raised = NoException
           THEN /\ IF Len(agency["cfr_references"]) > 0
                   THEN i' = i /\ j' = 1
                   ELSE i' = i + 1 /\ j' = 0
                /\ UNCHANGED <<raised, etl_status, pc>>
           ELSE /\ Propagate(r.raised)
                /\ UNCHANGED <<i, j>>
    /\ UNCHANGED <<title_number_int, processed_count, admin_config,
                   versioner_config, admin_raw_data, admin_transformed,
                   versioner_raw_data, versioner_transformed, requests,
                   unit_vars, call>>

\* InsertReference with agency_id = agency['parent_id']: the reference is
\* filed under the row's parent
InsertReference_of_parent ==
    /\ pc = "admin_load" /\ i <= Len(admin_transformed) /\ j >= 1
    /\ LET agency == admin_transformed[i]
           agency_id == agency["parent_id"]
           cfr_refs == agency["cfr_references"] IN
       \E fails \in BOOLEAN :
        LET r == IF fails THEN execute_fails(conn, disk, TRUE)
                 ELSE insert_cfr_reference(conn, disk, agency_id, cfr_refs[j]) IN
        /\ conn' = r.conn
        /\ disk' = r.disk
        /\ steps' = Append(steps, Step("insert_cfr_reference", agency_id,
                                       r.raised = NoException))
        /\ IF r.raised = NoException
           THEN /\ IF j < Len(cfr_refs)
                   THEN i' = i /\ j' = j + 1
                   ELSE i' = i + 1 /\ j' = 0
                /\ UNCHANGED <<raised, etl_status, pc>>
           ELSE /\ Propagate(r.raised)
                /\ UNCHANGED <<i, j>>
    /\ UNCHANGED <<title_number_int, processed_count, admin_config,
                   versioner_config, admin_raw_data, admin_transformed,
                   versioner_raw_data, versioner_transformed, requests,
                   unit_vars, call>>

\* load_admin_data: self.db_loader.insert_cfr_reference(agency_id, ref)
InsertReference ==
    /\ pc = "admin_load" /\ i <= Len(admin_transformed) /\ j >= 1
    /\ LET agency == admin_transformed[i]
           agency_id == agency["agency_id"]
           cfr_refs == agency["cfr_references"] IN
       \E fails \in BOOLEAN :
        LET r == IF fails THEN execute_fails(conn, disk, TRUE)
                 ELSE insert_cfr_reference(conn, disk, agency_id, cfr_refs[j]) IN
        /\ conn' = r.conn
        /\ disk' = r.disk
        /\ steps' = Append(steps, Step("insert_cfr_reference", agency_id,
                                       r.raised = NoException))
        /\ IF r.raised = NoException
           THEN /\ IF j < Len(cfr_refs)
                   THEN i' = i /\ j' = j + 1
                   ELSE i' = i + 1 /\ j' = 0
                /\ UNCHANGED <<raised, etl_status, pc>>
           ELSE /\ Propagate(r.raised)
                /\ UNCHANGED <<i, j>>
    /\ UNCHANGED <<title_number_int, processed_count, admin_config,
                   versioner_config, admin_raw_data, admin_transformed,
                   versioner_raw_data, versioner_transformed, requests,
                   unit_vars, call>>

\* load_admin_data returns: the loop over admin_transformed is exhausted
AdminLoadReturn ==
    /\ pc = "admin_load" /\ i > Len(admin_transformed)
    /\ pc' = "versioner_extract"
    /\ UNCHANGED <<title_number_int, processed_count, etl_status, admin_config,
                   versioner_config, admin_raw_data, admin_transformed,
                   versioner_raw_data, versioner_transformed, i, j, raised,
                   steps, requests, store_vars, unit_vars, call>>

\* versioner_raw_data = self.versioner_extractor.extract_data(), the GET
\* answered with one of bodies or failing
VersionerExtractFrom(bodies) ==
    /\ pc = "versioner_extract"
    /\ \E http \in Http(bodies) :
        LET r == extract_data(versioner_config, http) IN
        /\ requests' = requests \o r.requests
        /\ steps' = Append(steps, Step("versioner_extract", 0, r.raised = NoException))
        /\ IF r.raised = NoException
           THEN /\ versioner_raw_data' = r.value
                /\ pc' = "versioner_transform"
                /\ UNCHANGED <<raised, etl_status>>
           ELSE /\ Propagate(r.raised)
                /\ UNCHANGED versioner_raw_data
    /\ UNCHANGED <<title_number_int, processed_count, admin_config,
                   versioner_config, admin_raw_data, admin_transformed,
                   versioner_transformed, i, j, store_vars, unit_vars, call>>

VersionerExtract == VersionerExtractFrom(PipelineDocuments)

\* versioner_transformed = self.versioner_transformer.transform_proxy(...);
\* self.load_versioner_data(versioner_transformed) up to its first insert
VersionerTransform ==
    /\ pc = "versioner_transform"
    /\ LET r == transform_proxy(versioner_config, versioner_raw_data) IN
        /\ steps' = Append(steps, Step("versioner_transform", 0, r.raised = NoException))
        /\ IF r.raised = NoException
           THEN /\ versioner_transformed' = r.rows
                /\ pc' = "versioner_load"
                /\ i' = 1
                /\ j' = 0
                /\ UNCHANGED <<raised, etl_status>>
           ELSE /\ Propagate(r.raised)
                /\ UNCHANGED <<versioner_transformed, i, j>>
    /\ UNCHANGED <<title_number_int, processed_count, admin_config,
                   versioner_config, admin_raw_data, admin_transformed,
                   versioner_raw_data, requests, store_vars, unit_vars, call>>

\* load_versioner_data: self.db_loader.insert_cfr_section(section)
InsertSection ==
    /\ pc = "versioner_load" /\ i <= Len(versioner_transformed)
    /\ \E fails \in BOOLEAN :
        LET r == IF fails THEN execute_fails(conn, disk, TRUE)
                 ELSE insert_cfr_section(conn, disk, versioner_transformed[i]) IN
        /\ conn' = r.conn
        /\ disk' = r.disk
        /\ steps' = Append(steps, Step("insert_cfr_section", 0, r.raised = NoException))
        /\ IF r.raised = NoException
           THEN /\ i' = i + 1
                /\ UNCHANGED <<raised, etl_status, pc>>
           ELSE /\ Propagate(r.raised)
                /\ UNCHANGED i
    /\ UNCHANGED <<title_number_int, processed_count, admin_config,
                   versioner_config, admin_raw_data, admin_transformed,
                   versioner_raw_data, versioner_transformed, j, requests,
                   unit_vars, call>>

\* run_pipeline returns; processed_count += 1 and the loop goes on
RunReturn ==
    /\ pc = "versioner_load" /\ i > Len(versioner_transformed)
    /\ pc' = "loop"
    /\ processed_count' = processed_count + 1
    /\ title_number_int' = title_number_int + 1
    /\ UNCHANGED <<etl_status, admin_config, versioner_config, admin_raw_data,
                   admin_transformed, versioner_raw_data, versioner_transformed,
                   i, j, raised, steps, requests, store_vars, unit_vars, call>>

\* the loop is exhausted: return "ETL Pipeline completed."; the last
\* pipeline and its connection are dropped with the frame
Return ==
    /\ etl_status = "running" /\ pc = "loop"
    /\ title_number_int > LastTitle
    /\ etl_status' = "completed"
    /\ conn' = disk
    /\ UNCHANGED <<title_number_int, processed_count, admin_config,
                   versioner_config, pc, admin_raw_data, admin_transformed,
                   versioner_raw_data, versioner_transformed, i, j, raised,
                   steps, requests, disk, unit_vars, call>>

Next ==
    \/ SkipTitle
    \/ StartRun
    \/ AdminExtract
    \/ AdminTransform
    \/ InsertAgency
    \/ InsertReference
    \/ AdminLoadReturn
    \/ VersionerExtract
    \/ VersionerTransform
    \/ InsertSection
    \/ RunReturn
    \/ Return

Spec == Init /\ [][Next]_vars

(***************************************************************************)
(* TransformSpec: transform_admin_api called on every payload of           *)
(* AdminPayloads.                                                          *)
(***************************************************************************)
TransformInit ==
    /\ PipelineIdle
    /\ conn = EmptyDatabase
    /\ disk = EmptyDatabase
    /\ call = NoCall
    /\ config = Config("admin", <<>>)
    /\ response = Unbound
    /\ api_response \in AdminPayloads(MaxNodes)
    /\ result = Unbound
    /\ phase = "input"

CallTransformAdminApi ==
    /\ phase = "input"
    /\ config.params["service"] = "admin"
    /\ result' = transform_admin_api(config.params, api_response)
    /\ phase' = "transform_admin_api"
    /\ UNCHANGED <<config, response, api_response, pipeline_vars, store_vars, call>>

TransformNext == CallTransformAdminApi

TransformSpec == TransformInit /\ [][TransformNext]_vars

\* the agencies of a payload in the order parent, its children, next parent
RECURSIVE payload_order(_)
payload_order(agencies) ==
    IF agencies = <<>> THEN <<>>
    ELSE <<Head(agencies)>> \o get_list(Head(agencies), "children")
         \o payload_order(Tail(agencies))

\* N + sum(c_i)
RECURSIVE payload_size(_)
payload_size(agencies) ==
    IF agencies = <<>> THEN 0
    ELSE 1 + Len(get_list(Head(agencies), "children"))
         + payload_size(Tail(agencies))

\* for each agency in payload_order, NULL when it is top-level, else the
\* position in payload_order of the top-level agency that encloses it
RECURSIVE enclosing_position(_, _)
enclosing_position(agencies, before) ==
    IF agencies = <<>> THEN <<>>
    ELSE LET kids == get_list(Head(agencies), "children")
         IN  <<NULL>> \o [k \in 1..Len(kids) |-> before + 1]
             \o enclosing_position(Tail(agencies), before + 1 + Len(kids))

Returned(name) == phase = name /\ result.raised = NoException

\* C1: when transform_admin_api returns, it returns N + sum(c_i) rows, the
\* k-th row has agency_id k, and the k-th row is the row of the k-th agency in
\* the order first parent, its children in payload order, next parent, ...
C1_IdsInPayloadOrder ==
    Returned("transform_admin_api") =>
        LET agencies == get_list(api_response, "agencies")
            order == payload_order(agencies)
            rows == result.rows
        IN  /\ Len(rows) = payload_size(agencies)
            /\ Len(rows) = Len(order)
            /\ \A k \in 1..Len(rows) :
                /\ rows[k]["agency_id"] = k
                /\ rows[k]["slug"] = clean_text(order[k]["slug"])
                /\ rows[k]["cfr_references"] = cfr_refs_of(order[k])

\* two top-level agencies, the first with a child: three rows returned
C1_Witness ==
    /\ Returned("transform_admin_api")
    /\ Len(get_list(api_response, "agencies")) = 2
    /\ Len(get_list(api_response["agencies"][1], "children")) = 1
    /\ Len(result.rows) = 3

\* C2: in the rows transform_admin_api returns, parent_id is null exactly
\* for the top-level agencies of the payload, and a child's parent_id is the
\* agency_id of the top-level agency that encloses it, whatever the slugs
C2_ParentIsEnclosingAgency ==
    Returned("transform_admin_api") =>
        LET agencies == get_list(api_response, "agencies")
            enclosing == enclosing_position(agencies, 0)
            rows == result.rows
        IN  \A k \in 1..Len(rows) :
                /\ (rows[k]["parent_id"] = NULL) <=> (enclosing[k] = NULL)
                /\ enclosing[k] # NULL =>
                     rows[k]["parent_id"] = rows[enclosing[k]]["agency_id"]

(***************************************************************************)
(* LoaderSpec: a DatabaseLoader on a new file, its three insert methods    *)
(* called in any order with any arguments.                                 *)
(***************************************************************************)
\* the agency_id values handed to the loader: two ids and two slugs give the
\* primary-key conflict, the slug conflict and both at once
AgencyIds == {1, 2}

\* the rows handed to insert_agency
LoaderAgencies ==
    {[agency_id |-> id, name |-> n, short_name |-> <<>>, display_name |-> <<>>,
      sortable_name |-> <<>>, slug |-> s, parent_id |-> NULL] :
        id \in AgencyIds, n \in {<<"n">>, <<"m">>}, s \in {<<"a">>, <<"b">>}}

\* the section rows handed to insert_cfr_section
LoaderSections ==
    {title_rows(Document(<<Section1>>).root)[1]}

CallInsertAgency ==
    \E agency \in LoaderAgencies :
        LET r == insert_agency(conn, disk, agency) IN
        /\ conn' = r.conn
        /\ disk' = r.disk
        /\ call' = [op |-> "insert_agency", agency_id |-> agency["agency_id"],
                    agency |-> agency, raised |-> r.raised, before |-> conn]
        /\ UNCHANGED <<pipeline_vars, unit_vars>>

CallInsertCfrReference ==
    /\ Cardinality(conn.cfr_references) < MaxReferenceRows
    /\ \E agency_id \in AgencyIds :
        LET r == insert_cfr_reference(conn, disk, agency_id, Reference) IN
        /\ conn' = r.conn
        /\ disk' = r.disk
        /\ call' = [op |-> "insert_cfr_reference", agency_id |-> agency_id,
                    agency |-> <<>>, raised |-> r.raised, before |-> conn]
        /\ UNCHANGED <<pipeline_vars, unit_vars>>

CallInsertCfrSection ==
    /\ Cardinality(conn.cfr_sections) < MaxSectionRows
    /\ \E section \in LoaderSections :
        LET r == insert_cfr_section(conn, disk, section) IN
        /\ conn' = r.conn
        /\ disk' = r.disk
        /\ call' = [op |-> "insert_cfr_section", agency_id |-> NULL,
                    agency |-> <<>>, raised |-> r.raised, before |-> conn]
        /\ UNCHANGED <<pipeline_vars, unit_vars>>

LoaderNext ==
    \/ CallInsertAgency
    \/ CallInsertCfrReference
    \/ CallInsertCfrSection

LoaderSpec == Init /\ [][LoaderNext]_vars

HasAgency(db, agency_id) == \E r \in db.agencies : r.agency_id = agency_id

\* C3: insert_cfr_reference(agency_id, ref) fails with a foreign-key
\* violation and adds no row when agencies holds no row with that agency_id,
\* and succeeds and adds exactly one row when it does
C3_ForeignKeyEnforced ==
    call.op = "insert_cfr_reference" =>
        IF HasAgency(call.before, call.agency_id)
        THEN /\ call.raised = NoException
             /\ call.before.cfr_references \subseteq conn.cfr_references
             /\ Cardinality(conn.cfr_references)
                    = Cardinality(call.before.cfr_references) + 1
        ELSE /\ call.raised.type = "IntegrityError"
             /\ conn.cfr_references = call.before.cfr_references

\* C4: every cfr_references row has the agency_id of a row present in
\* agencies, in what the connection sees and in what is committed
ReferentialIntegrity(db) ==
    \A ref \in db.cfr_references : HasAgency(db, ref.agency_id)
C4_ReferentialIntegrity == ReferentialIntegrity(conn) /\ ReferentialIntegrity(disk)

\* C5: insert_agency with an agency_id that agencies already holds
\* overwrites that row in place: as many rows after as before, the row with
\* that agency_id holds the new values, every other row is unchanged
C5_OverwriteInPlace ==
    (call.op = "insert_agency" /\ HasAgency(call.before, call.agency_id)) =>
        /\ Cardinality(conn.agencies) = Cardinality(call.before.agencies)
        /\ call.agency \in conn.agencies
        /\ \A r \in call.before.agencies :
              r.agency_id # call.agency_id => r \in conn.agencies
        /\ \A r \in conn.agencies :
              r.agency_id # call.agency_id => r \in call.before.agencies

\* C6: agencies never holds two rows with one slug, and an insert_agency
\* that returns without an error leaves in place every row that has the new
\* row's slug and another agency_id
C6_NoSilentSlugCollision ==
    /\ \A r1, r2 \in conn.agencies : r1.slug = r2.slug => r1 = r2
    /\ (call.op = "insert_agency" /\ call.raised = NoException) =>
          \A r \in call.before.agencies :
              (r.slug = call.agency["slug"] /\ r.agency_id # call.agency_id)
                  => r \in conn.agencies

(***************************************************************************)
(* DispatchSpec: a Config built for any service name, and extract_data or  *)
(* transform_proxy called with its params.                                 *)
(***************************************************************************)
Services == {"admin", "versioner", "search", ""}
UserParams ==
    {<<>>, [date |-> "2024-01-01"], [date |-> "2024-01-01", title |-> "1"]}

\* config = Config(service, user_params): the object's service, user_params
\* and params, and what the constructor raised
NewConfig ==
    /\ phase = "none"
    /\ \E service \in Services, user_params \in UserParams :
        LET c == Config(service, user_params) IN
        config' = [service |-> service, user_params |-> user_params,
                   raised |-> c.raised, params |-> c.params]
    /\ phase' = "Config"
    /\ UNCHANGED <<response, api_response, result, pipeline_vars, store_vars, call>>

\* what the GET of a service may answer; an unsupported service has no
\* endpoint, any answer is tried
Bodies(service) ==
    IF service = "admin" THEN PipelinePayloads
    ELSE IF service = "versioner" THEN PipelineDocuments
    ELSE PipelinePayloads \cup PipelineDocuments

\* DataExtractor(config.params).extract_data()
CallExtractData ==
    /\ phase = "Config" /\ config.raised = NoException
    /\ \E h \in Http(Bodies(config.service)) :
        LET r == extract_data(config.params, h) IN
        /\ response' = h
        /\ result' = r
        /\ requests' = r.requests
    /\ phase' = "extract_data"
    /\ UNCHANGED <<config, api_response, store_vars, call>>
    /\ UNCHANGED <<title_number_int, processed_count, etl_status, admin_config,
                   versioner_config, pc, admin_raw_data, admin_transformed,
                   versioner_raw_data, versioner_transformed, i, j, raised, steps>>

\* DataTransformer(config.params).transform_proxy(api_response)
CallTransformProxy ==
    /\ phase = "Config" /\ config.raised = NoException
    /\ \E body \in Bodies(config.service) :
        /\ api_response' = body
        /\ result' = transform_proxy(config.params, body)
    /\ phase' = "transform_proxy"
    /\ UNCHANGED <<config, response, pipeline_vars, store_vars, call>>

DispatchNext ==
    \/ NewConfig
    \/ CallExtractData
    \/ CallTransformProxy

DispatchSpec == Init /\ [][DispatchNext]_vars

Supported(service) == service \in {"admin", "versioner"}

\* the exception types that say a fetch failed
FetchErrors == {"ExtractionError", "RequestException", "ConnectionError", "HTTPError"}

\* C8: when the GET fails (no answer, or an answer that is not 2xx),
\* extract_data fails with an error that names the fetch failure, and returns
\* no value
C8_FetchFailureIsTyped ==
    (phase = "extract_data" /\ requests # <<>> /\ response.status # "ok") =>
        /\ result.raised.type \in FetchErrors
        /\ result.value = <<>>

\* C9: Config with a service name other than 'admin' and 'versioner' fails
\* with an unsupported-service error and yields no params mapping
C9_UnsupportedServiceRejected ==
    (phase = "Config" /\ ~Supported(config.service)) =>
        /\ config.raised.type = "ValueError"
        /\ DOMAIN config.params = {}

\* C10: for a service tag other than 'admin' and 'versioner', extract_data
\* and transform_proxy fail with the service-not-supported error that carries
\* the tag; no URL is requested and nothing is returned
C10_UnsupportedTagRaises ==
    (phase \in {"extract_data", "transform_proxy"}
        /\ ~Supported(config.params["service"])) =>
        /\ result.raised = Exception("ServiceNotImplementedError",
                                     config.params["service"])
        /\ requests = <<>>
        /\ phase = "extract_data" => result.value = <<>>
        /\ phase = "transform_proxy" => result.rows = <<>>

\* extract_data called with the tag 'search'
C10_Witness ==
    /\ phase = "extract_data"
    /\ config.params["service"] = "search"
    /\ result.raised.type = "ServiceNotImplementedError"
    /\ result.raised.arg = "search"

(***************************************************************************)
(* The order of the steps of run_pipeline.                                 *)
(***************************************************************************)
\* the position of a step in admin extract, admin transform, admin load,
\* versioner extract, versioner transform, versioner load
StepPosition(step) ==
    CASE step = "admin_extract" -> 1
      [] step = "admin_transform" -> 2
      [] step \in {"insert_agency", "insert_cfr_reference"} -> 3
      [] step = "versioner_extract" -> 4
      [] step = "versioner_transform" -> 5
      [] step = "insert_cfr_section" -> 6

\* the steps that are one call; a load is one insert per row
OneCall(step) ==
    step \in {"admin_extract", "admin_transform", "versioner_extract",
              "versioner_transform"}

\* the inserts load_admin_data makes for rows: one per row and per reference
RECURSIVE admin_inserts(_)
admin_inserts(rows) ==
    IF rows = <<>> THEN 0
    ELSE 1 + Len(Head(rows)["cfr_references"]) + admin_inserts(Tail(rows))

StepsAt(position) ==
    {k \in 1..Len(steps) : StepPosition(steps[k].step) = position}

\* C7: the steps of a run are executed in the fixed order, none twice, none
\* before the ones that precede it are done, and none after a step that failed
C7_FixedOrderFailFast ==
    /\ \A k \in 1..Len(steps) :
        \* a failed step is the last step of the run
        /\ ~steps[k].ok => k = Len(steps)
        /\ k < Len(steps) =>
            LET here == StepPosition(steps[k].step)
                next == StepPosition(steps[k + 1].step)
            IN  /\ here <= next
                /\ OneCall(steps[k].step) => here < next
        \* every one-call step before this one has been executed
        /\ \A before \in {1, 2, 4, 5} :
              before < StepPosition(steps[k].step) => StepsAt(before) # {}
    \* the versioner steps start when the admin load is complete
    /\ (StepsAt(4) # {}) =>
          Cardinality(StepsAt(3)) = admin_inserts(admin_transformed)
    /\ Cardinality(StepsAt(6)) <= Len(versioner_transformed)
    /\ (pc = "loop" /\ steps # <<>>) =>
          Cardinality(StepsAt(6)) = Len(versioner_transformed)

\* a run whose admin load failed on an insert_cfr_reference after two
\* successful steps and one insert: nothing follows the failure
C7_Witness ==
    /\ pc = "raised"
    /\ Len(steps) = 4
    /\ steps[4].step = "insert_cfr_reference"
    /\ ~steps[4].ok

\* a run that went through all six steps
C7_WitnessComplete ==
    /\ pc = "loop"
    /\ \A position \in 1..6 : StepsAt(position) # {}

(***************************************************************************)
(* StableSpec: run_initial_etl against an upstream whose answers do not    *)
(* change from one run to the next.  api_response is the admin payload and *)
(* response the answer of the versioner every successful GET receives; a   *)
(* GET may still fail, and so may a statement.                             *)
(***************************************************************************)
StableInit ==
    /\ PipelineIdle
    /\ conn = EmptyDatabase
    /\ disk = EmptyDatabase
    /\ call = NoCall
    /\ config = Unbound
    /\ result = Unbound
    /\ phase = "none"
    /\ api_response \in PipelinePayloads
    /\ response \in {[status |-> "ok", body |-> b] : b \in PipelineDocuments}

StableNext ==
    \/ SkipTitle
    \/ StartRun
    \/ AdminExtractFrom({api_response})
    \/ AdminTransform
    \/ InsertAgency
    \/ InsertReference
    \/ AdminLoadReturn
    \/ VersionerExtractFrom({response.body})
    \/ VersionerTransform
    \/ InsertSection
    \/ RunReturn
    \/ Return

StableSpec == StableInit /\ [][StableNext]_vars

\* the batch of sections every versioner load of StableSpec is handed
StableBatch ==
    transform_versioner_api([service |-> "versioner"], response.body).rows

\* the step of run_pipeline this transition executed
Executed(step, ok) ==
    /\ Len(steps') = Len(steps) + 1
    /\ steps'[Len(steps')].step = step
    /\ steps'[Len(steps')].ok = ok

\* r1 and r2 are two rows with the same columns but the key
SameBut(key, r1, r2) ==
    /\ r1[key] # r2[key]
    /\ \A c \in DOMAIN r1 \ {key} : r1[c] = r2[c]

\* C11: an insert_cfr_section that returns adds exactly one row to
\* cfr_sections, under a section_id no stored row has, and leaves every
\* stored row as it was, whether or not the same section is stored already;
\* so after k versioner loads of the same batch of m sections cfr_sections
\* holds k*m rows, and k*m plus the sections inserted so far during a load
C11_SectionInsertAppends ==
    /\ [][Executed("insert_cfr_section", TRUE) =>
            \E row \in conn'.cfr_sections :
                /\ conn'.cfr_sections = conn.cfr_sections \cup {row}
                /\ \A r \in conn.cfr_sections : r.section_id # row.section_id
                /\ Cardinality(conn'.cfr_sections)
                       = Cardinality(conn.cfr_sections) + 1
                /\ disk'.cfr_sections = conn'.cfr_sections]_vars
    /\ [](pc = "loop" =>
            Cardinality(conn.cfr_sections) = processed_count * Len(StableBatch))
    /\ [](pc = "versioner_load" =>
            Cardinality(conn.cfr_sections)
                = processed_count * Len(StableBatch) + (i - 1))

\* two complete runs with a document of two sections: four rows, among them
\* two that differ in section_id only
C11_Witness ==
    /\ pc = "loop"
    /\ processed_count = 2
    /\ Len(StableBatch) = 2
    /\ Cardinality(disk.cfr_sections) = 4
    /\ \E r1, r2 \in disk.cfr_sections : SameBut("section_id", r1, r2)

(***************************************************************************)
(* VersionerSpec: transform_versioner_api called on every document of      *)
(* VersionerDocuments.                                                     *)
(***************************************************************************)
\* Title, Chapter, Subchapter, Part: the tags of the four outer loops
Levels == <<"DIV1", "DIV3", "DIV4", "DIV5">>

\* the first n of the sections Section1, Section2, Section1, ...
SectionList(n) == [k \in 1..n |-> IF k % 2 = 1 THEN Section1 ELSE Section2]

\* kids wrapped in one element per tag of tags, outermost first, each with
\* the number n and a HEAD
RECURSIVE Build(_, _, _)
Build(tags, kids, n) ==
    IF tags = <<>> THEN kids
    ELSE <<Division(Head(tags), n, <<"h">> \o n, Build(Tail(tags), kids, n))>>

\* tags without its k-th entry, and with its k-th entry twice
Drop(tags, k) == SubSeq(tags, 1, k - 1) \o SubSeq(tags, k + 1, Len(tags))
Double(tags, k) == SubSeq(tags, 1, k) \o SubSeq(tags, k, Len(tags))

\* the nestings a branch may have where tags are expected: all of them, one
\* missing, one nested in itself, or an intermediate division above the sections
Variants(tags) ==
    {tags, tags \o <<"DIV6">>}
    \cup {Drop(tags, k) : k \in 1..Len(tags)}
    \cup {Double(tags, k) : k \in 1..Len(tags)}

\* the branches below the first k levels: one of the nestings around up to
\* max sections
Branches(k, max, n) ==
    {Build(tags, SectionList(m), n) :
        tags \in Variants(SubSeq(Levels, k + 1, Len(Levels))), m \in 0..max}

XmlDocument(kids) ==
    [wellformed |-> TRUE, root |-> Element("ECFR", <<>>, <<>>, kids)]

\* the documents of VersionerSpec: an ECFR root, the first k levels nested in
\* it, and one or two branches below them; the fixture documents; an empty
\* root; a text that is not XML
VersionerDocuments(max) ==
    UNION {{XmlDocument(Build(SubSeq(Levels, 1, k), b1 \o b2, <<"1">>)) :
                b1 \in Branches(k, max, <<"1">>),
                b2 \in Branches(k, max, <<"2">>) \cup {<<>>}} :
           k \in 0..Len(Levels)}
    \cup {Document(SectionList(m)) : m \in 0..max}
    \cup {XmlDocument(<<>>), Malformed}

VersionerInit ==
    /\ PipelineIdle
    /\ conn = EmptyDatabase
    /\ disk = EmptyDatabase
    /\ call = NoCall
    /\ config = Config("versioner", [date |-> "2024-01-01", title |-> "1"])
    /\ response = Unbound
    /\ api_response \in VersionerDocuments(MaxSections)
    /\ result = Unbound
    /\ phase = "input"

CallTransformVersionerApi ==
    /\ phase = "input"
    /\ config.params["service"] = "versioner"
    /\ result' = transform_versioner_api(config.params, api_response)
    /\ phase' = "transform_versioner_api"
    /\ UNCHANGED <<config, response, api_response, pipeline_vars, store_vars, call>>

VersionerNext == CallTransformVersionerApi

VersionerSpec == VersionerInit /\ [][VersionerNext]_vars

\* the places of the elements of a tree: the root is <<>>, the k-th child of
\* the element at p is p \o <<k>>
RECURSIVE Places(_)
Places(e) ==
    {<<>>} \cup UNION {{<<k>> \o p : p \in Places(e.kids[k])} : k \in 1..Len(e.kids)}

RECURSIVE ElementAt(_, _)
ElementAt(e, p) == IF p = <<>> THEN e ELSE ElementAt(e.kids[Head(p)], Tail(p))

\* the element at q is a descendant of the element at p
Below(p, q) == Len(p) < Len(q) /\ SubSeq(q, 1, Len(p)) = p

Tagged(root, tag) == {p \in Places(root) : ElementAt(root, p).tag = tag}

\* the (Title, Chapter, Subchapter, Part, Section) chains of a document, each
\* element a descendant of the one before it
Chains(root) ==
    {c \in Tagged(root, "DIV1") \X Tagged(root, "DIV3") \X Tagged(root, "DIV4")
           \X Tagged(root, "DIV5") \X Tagged(root, "DIV8") :
        /\ Below(<<>>, c[1])
        /\ \A k \in 1..4 : Below(c[k], c[k + 1])}

\* the N attribute and the trimmed text of the first HEAD child of the
\* element at p
NumberAt(root, p) == get(ElementAt(root, p).attrib, "N")
HeadAt(root, p) == head_of(ElementAt(root, p))

\* the row of a chain: the number and head of each of its five elements, and
\* the section's body
ChainRow(root, c) ==
    [title_number      |-> NumberAt(root, c[1]),
     title_head        |-> HeadAt(root, c[1]),
     chapter_number    |-> NumberAt(root, c[2]),
     chapter_head      |-> HeadAt(root, c[2]),
     subchapter_number |-> NumberAt(root, c[3]),
     subchapter_head   |-> HeadAt(root, c[3]),
     part_number       |-> NumberAt(root, c[4]),
     part_head         |-> HeadAt(root, c[4]),
     section_number    |-> NumberAt(root, c[5]),
     section_title     |-> HeadAt(root, c[5]),
     body              |-> body_of(ElementAt(root, c[5]))]

AncestorFields ==
    {"title_number", "title_head", "chapter_number", "chapter_head",
     "subchapter_number", "subchapter_head", "part_number", "part_head"}

\* C12: transform_versioner_api returns as many rows as the document has
\* (Title, Chapter, Subchapter, Part, Section) chains, and each row as often
\* as there are chains it is the row of, so that the rows of the sections of
\* one Part under one Subchapter, Chapter and Title agree on the eight
\* ancestor fields; the document of 1 Title, 1 Chapter, 1 Subchapter, 1 Part
\* and 2 Sections gives 2 rows that agree on the ancestor fields and differ in
\* section_number, section_title and body
C12_OneRowPerChain ==
    (phase = "transform_versioner_api" /\ api_response.wellformed) =>
        LET root == api_response.root
            rows == result.rows
            chains == Chains(root)
        IN  /\ result.raised = NoException
            /\ Len(rows) = Cardinality(chains)
            /\ \A c \in chains :
                  Cardinality({k \in 1..Len(rows) : rows[k] = ChainRow(root, c)})
                      = Cardinality({d \in chains :
                                        ChainRow(root, d) = ChainRow(root, c)})
            /\ api_response = Document(<<Section1, Section2>>) =>
                  /\ Len(rows) = 2
                  /\ \A f \in AncestorFields : rows[1][f] = rows[2][f]
                  /\ \A f \in {"section_number", "section_title", "body"} :
                        rows[1][f] # rows[2][f]

\* the fixture of 1 Title, 1 Chapter, 1 Subchapter, 1 Part and 2 Sections
C12_Witness ==
    /\ phase = "transform_versioner_api"
    /\ api_response = Document(<<Section1, Section2>>)
    /\ Cardinality(Chains(api_response.root)) = 2
    /\ Len(result.rows) = 2

\* a Chapter nested in a Chapter: two chains through each section
C12_WitnessNested ==
    /\ phase = "transform_versioner_api"
    /\ api_response.wellformed
    /\ Cardinality(Tagged(api_response.root, "DIV8")) = 1
    /\ Len(result.rows) = 2

(***************************************************************************)
(* The tables after the admin track.                                       *)
(***************************************************************************)
\* the agency_id, parent_id and slug of the rows of agencies
AgencyKeys(db) ==
    {[agency_id |-> r.agency_id, parent_id |-> r.parent_id, slug |-> r.slug] :
        r \in db.agencies}

\* the agency_id, title, chapter and part of the rows of cfr_references
ReferenceKeys(db) ==
    {[agency_id |-> r.agency_id, title |-> r.title, chapter |-> r.chapter,
      part |-> r.part] : r \in db.cfr_references}

\* what the end-to-end fixture is to leave in the store
DoeTables(db) ==
    /\ Cardinality(db.agencies) = 2
    /\ AgencyKeys(db) =
          {[agency_id |-> 1, parent_id |-> NULL, slug |-> <<"d", "o", "e">>],
           [agency_id |-> 2, parent_id |-> 1, slug |-> <<"s", "o">>]}
    /\ Cardinality(db.cfr_references) = 1
    /\ ReferenceKeys(db) =
          {[agency_id |-> 1, title |-> <<"1">>, chapter |-> <<"I">>,
            part |-> <<>>]}

\* the admin track of the first run, on the empty store, has completed
AdminTrackDone == processed_count = 0 /\ pc = "versioner_extract"

\* C13: when the admin track has run on an empty store with the fixture of
\* agency 'doe', its one reference and its child 'so', the store holds
\* exactly the agencies (1, null, 'doe') and (2, 1, 'so') and the one
\* reference (1, '1', 'I', ''): the loader reads them, and they are committed
C13_DoeFixtureStored ==
    (AdminTrackDone /\ admin_raw_data = [agencies |-> <<Doe>>]) =>
        /\ DoeTables(conn)
        /\ DoeTables(disk)

\* the part of C13 the code does satisfy: the rows as the loader's own
\* connection reads them
C13_DoeFixtureOnConnection ==
    (AdminTrackDone /\ admin_raw_data = [agencies |-> <<Doe>>]) => DoeTables(conn)

(***************************************************************************)
(* CleanSpec: clean_text called on a text, and again on what it returned.  *)
(***************************************************************************)
\* the texts of up to max characters over a letter and the whitespace
\* characters, and None
RECURSIVE Texts(_)
Texts(max) ==
    IF max = 0 THEN {<<>>}
    ELSE LET shorter == Texts(max - 1)
         IN  shorter \cup {Append(t, c) : t \in shorter, c \in {"a"} \cup Whitespace}

CleanInit ==
    /\ PipelineIdle
    /\ conn = EmptyDatabase
    /\ disk = EmptyDatabase
    /\ call = NoCall
    /\ config = Unbound
    /\ response = Unbound
    /\ api_response \in Texts(MaxTextLen) \cup {None}
    /\ result = Unbound
    /\ phase = "input"

\* result = clean_text(text)
CallCleanText ==
    /\ phase = "input"
    /\ result' = clean_text(api_response)
    /\ phase' = "clean_text"
    /\ UNCHANGED <<config, response, api_response, pipeline_vars, store_vars, call>>

\* clean_text(result): response keeps the argument, result what is returned
CallCleanTextAgain ==
    /\ phase = "clean_text"
    /\ response' = result
    /\ result' = clean_text(result)
    /\ phase' = "clean_text_again"
    /\ UNCHANGED <<config, api_response, pipeline_vars, store_vars, call>>

CleanNext ==
    \/ CallCleanText
    \/ CallCleanTextAgain

CleanSpec == CleanInit /\ [][CleanNext]_vars

\* C14: clean_text applied to what clean_text returned returns it unchanged;
\* what clean_text returns neither starts nor ends with whitespace and has no
\* two whitespace characters in a row; for None it returns the empty string,
\* as for the empty string
C14_CleanTextIdempotent ==
    /\ phase = "clean_text_again" => result = response
    /\ phase \in {"clean_text", "clean_text_again"} =>
          /\ result # None
          /\ result # <<>> =>
                Head(result) \notin Whitespace /\ result[Len(result)] \notin Whitespace
          /\ \A k \in 1..(Len(result) - 1) :
                ~(result[k] \in Whitespace /\ result[k + 1] \in Whitespace)
    /\ (phase = "clean_text" /\ api_response = None) => result = <<>>

\* "a \n a" was cleaned to "a a", and cleaned again
C14_Witness ==
    /\ phase = "clean_text_again"
    /\ api_response = <<"a", " ", "\n", "a">>
    /\ response = <<"a", " ", "a">>
    /\ result = <<"a", " ", "a">>

\* the rows of agencies a run's admin transform produced
TransformedAgencies == {agency_columns(admin_transformed[k]) : k \in 1..Len(admin_transformed)}

\* no two rows of the run's admin transform have the same slug
DistinctSlugs ==
    \A k1, k2 \in 1..Len(admin_transformed) :
        admin_transformed[k1]["slug"] = admin_transformed[k2]["slug"] => k1 = k2

\* the admin load of a run has completed
AdminLoadDone == pc \in {"versioner_extract", "versioner_transform", "versioner_load"}

\* C15: when the admin load of a run has completed, agencies holds exactly
\* the agency rows of that run's admin transform, whatever it held before the
\* run (stated for the loader's connection and for payloads whose slugs are
\* distinct, where neither a missing commit nor a slug conflict interferes)
C15_AgenciesRebuilt ==
    (AdminLoadDone /\ DistinctSlugs) => conn.agencies = TransformedAgencies

\* the last step the run executed was a store write that returned
WriteReturned ==
    /\ steps # <<>>
    /\ steps[Len(steps)].step
           \in {"insert_agency", "insert_cfr_reference", "insert_cfr_section"}
    /\ steps[Len(steps)].ok

\* C16: when insert_agency, insert_cfr_reference or insert_cfr_section has
\* returned, what it wrote is committed: the committed tables are the tables
\* the loader reads; and when a later step fails, the rows of the writes that
\* had returned are in the committed tables
C16_WritesCommitted ==
    /\ WriteReturned => disk = conn
    /\ pc = "raised" => conn.agencies \subseteq disk.agencies

\* the calls load_admin_data makes for rows, in order: for each row
\* insert_agency, then insert_cfr_reference once per reference of the row
RECURSIVE ExpectedAdminCalls(_)
ExpectedAdminCalls(rows) ==
    IF rows = <<>> THEN <<>>
    ELSE <<[step |-> "insert_agency", arg |-> Head(rows)["agency_id"]]>>
         \o [k \in 1..Len(Head(rows)["cfr_references"]) |->
                [step |-> "insert_cfr_reference", arg |-> Head(rows)["agency_id"]]]
         \o ExpectedAdminCalls(Tail(rows))

IsAdminCall(s) == s.step \in {"insert_agency", "insert_cfr_reference"}

\* C17: in a run, every insert_cfr_reference(a, ref) is preceded by an
\* insert_agency of the row with agency_id a, with no insert_agency of
\* another row between the two; and the calls of the admin load are, in
\* order, those of the transformed rows: each row's agency, then its references
C17_AgencyBeforeReferences ==
    /\ \A k \in 1..Len(steps) :
          steps[k].step = "insert_cfr_reference" =>
              \E a \in 1..(k - 1) :
                  /\ steps[a].step = "insert_agency"
                  /\ steps[a].arg = steps[k].arg
                  /\ steps[a].ok
                  /\ \A b \in (a + 1)..(k - 1) : steps[b].step = "insert_cfr_reference"
    /\ LET calls == SelectSeq(steps, IsAdminCall)
           expected == ExpectedAdminCalls(admin_transformed)
       IN  /\ Len(calls) <= Len(expected)
           /\ \A k \in 1..Len(calls) :
                 /\ calls[k].step = expected[k].step
                 /\ calls[k].arg = expected[k].arg
           /\ AdminLoadDone => Len(calls) = Len(expected)

\* the admin load of two agencies with a reference each has completed:
\* agency 1, its reference, agency 2, its reference
C17_Witness ==
    /\ AdminLoadDone
    /\ Len(admin_transformed) = 2
    /\ LET calls == SelectSeq(steps, IsAdminCall)
       IN  /\ Len(calls) = 4
           /\ calls[1].step = "insert_agency" /\ calls[1].arg = 1
           /\ calls[2].step = "insert_cfr_reference" /\ calls[2].arg = 1
           /\ calls[3].step = "insert_agency" /\ calls[3].arg = 2
           /\ calls[4].step = "insert_cfr_reference" /\ calls[4].arg = 2

\* the tag of the loop nested in the loop over tag
NextLevel(tag) ==
    CASE tag = "DIV1" -> "DIV3"
      [] tag = "DIV3" -> "DIV4"
      [] tag = "DIV4" -> "DIV5"
      [] tag = "DIV5" -> "DIV8"

\* the element at p is a Title, Chapter, Subchapter or Part below which the
\* next level is entirely absent
Lacking(root, p) ==
    /\ p # <<>>
    /\ \E k \in 1..Len(Levels) : ElementAt(root, p).tag = Levels[k]
    /\ ~\E q \in Tagged(root, NextLevel(ElementAt(root, p).tag)) : Below(p, q)

\* the tree without the element at p and what is below it
RECURSIVE RemoveAt(_, _)
RemoveAt(e, p) ==
    IF Len(p) = 1 THEN [e EXCEPT !.kids = Drop(e.kids, p[1])]
    ELSE [e EXCEPT !.kids[p[1]] = RemoveAt(e.kids[p[1]], Tail(p))]

\* C18: on a well-formed document transform_versioner_api raises nothing,
\* and an element below which the next nesting level is entirely absent
\* contributes no row and takes none away: the rows returned are the rows
\* returned for the document without that element
C18_AbsentLevelNoRows ==
    (phase = "transform_versioner_api" /\ api_response.wellformed) =>
        /\ result.raised = NoException
        /\ \A p \in Places(api_response.root) :
              Lacking(api_response.root, p) =>
                  result.rows =
                      transform_versioner_api(config.params,
                          [api_response EXCEPT
                              !.root = RemoveAt(api_response.root, p)]).rows

\* a document with a branch that lacks a level next to a branch that yields rows
C18_Witness ==
    /\ phase = "transform_versioner_api"
    /\ api_response.wellformed
    /\ result.raised = NoException
    /\ \E p \in Places(api_response.root) : Lacking(api_response.root, p)
    /\ Len(result.rows) = 2

\* C19: run_initial_etl runs the pipeline for the titles 1..LastTitle except
\* SkippedTitle, one after the other, and the failure of a run does not end
\* it: the exception is caught for that title and the loop goes on, so the
\* call is never left by an exception and every run that fails is followed
\* by the run of the next title
C19_FailedTitleSkipped ==
    /\ pc # "loop" => title_number_int \in (1..LastTitle) \ {SkippedTitle}
    /\ etl_status = "completed" => title_number_int = LastTitle + 1
    /\ etl_status # "crashed"
    /\ pc # "raised"

\* C20: in the rows transform_admin_api returns, no two rows have the same
\* agency_id, and every parent_id that is not null is the agency_id of a row
\* earlier in the sequence; load_admin_data inserts the rows in sequence
\* order, so the row a parent_id names is inserted before the row that names it
C20_ParentRowIsEarlier ==
    Returned("transform_admin_api") =>
        LET rows == result.rows
        IN  /\ \A k1, k2 \in 1..Len(rows) :
                  rows[k1]["agency_id"] = rows[k2]["agency_id"] => k1 = k2
            /\ \A k \in 1..Len(rows) :
                  rows[k]["parent_id"] # NULL =>
                      \E e \in 1..(k - 1) :
                          rows[e]["agency_id"] = rows[k]["parent_id"]

\* a parent with two children, the first with the parent's cleaned slug:
\* the second child's parent_id is the first child's agency_id, an earlier row
C20_Witness ==
    /\ Returned("transform_admin_api")
    /\ Len(result.rows) = 3
    /\ result.rows[1]["parent_id"] = NULL
    /\ result.rows[2]["parent_id"] = 1
    /\ result.rows[3]["parent_id"] = 2

\* the agency rows every admin transform of StableSpec returns
StableRows == transform_admin_api([service |-> "admin"], api_response).rows

\* the payload of StableSpec is transformed without an error and no two of
\* its rows have the same slug
StableDistinctSlugs ==
    /\ transform_admin_api([service |-> "admin"], api_response).raised = NoException
    /\ \A k1, k2 \in 1..Len(StableRows) :
          StableRows[k1]["slug"] = StableRows[k2]["slug"] => k1 = k2

\* R: the references of all rows
RECURSIVE reference_count(_)
reference_count(rows) ==
    IF rows = <<>> THEN 0
    ELSE Len(Head(rows)["cfr_references"]) + reference_count(Tail(rows))

\* after k complete runs db holds k*R references and A agencies
Accumulated(db) ==
    /\ Cardinality(db.cfr_references) = processed_count * reference_count(StableRows)
    /\ Cardinality(db.agencies) = Len(StableRows)

\* k >= 1 runs with the same payload of distinct slugs have completed
RunsCompleted ==
    pc = "loop" /\ etl_status = "running" /\ processed_count >= 1
        /\ StableDistinctSlugs

\* no step removes or changes a row of cfr_references
ReferencesKept ==
    [][/\ disk.cfr_references \subseteq disk'.cfr_references
       /\ conn.cfr_references \subseteq conn'.cfr_references]_vars

\* C21: after k complete runs with the same admin payload of distinct slugs,
\* R references and A agencies, the store holds k*R rows in cfr_references
\* and A rows in agencies, as the loader reads it and as committed
C21_ReferencesAccumulate ==
    RunsCompleted => (Accumulated(conn) /\ Accumulated(disk))

\* the part of C21 the code does satisfy: the k*R references, committed, and
\* the A agencies as the loader's own connection reads them
C21_OnConnection ==
    RunsCompleted =>
        /\ Accumulated(conn)
        /\ disk.cfr_references = conn.cfr_references

=============================================================================
